---- MODULE Spec2Model ----
(***************************************************************************)
(* The 6502 assembler of emu502: CompilationContext (directive execution,  *)
(* label definition, forward-reference relocation, instruction encoding)   *)
(* over the Program container (sparse image, label table, relocation set), *)
(* and the machine that runs its output: Memory on the cycle Clock, the    *)
(* Cpu6502 instruction cycle, its run loop and the BaseTest fixture.       *)
(***************************************************************************)
EXTENDS Integers, Naturals, Sequences, FiniteSets, TLC

VARIABLES
    sparse_map,        \* program.sparse_binary_code.sparse_map : address -> byte (partial)
    current_position,  \* CompilationContext::current_position (Address_t)
    labels,            \* program.labels : name -> LabelInfo (partial)
    relocations,       \* program.relocations : set of RelocationInfo
    error,             \* the exception that aborted the assembly, NoError while none was thrown
    finished,          \* TRUE once the input is consumed and the Program handed to the caller
    line,              \* the source line processed by the last step
    before,            \* the compilation context as it was when that line was read
    nlines,            \* number of source lines processed
    ninstructions,     \* number of instruction lines among them
    mem,               \* Memory::mem : the cells written so far, every other cell holds the fill byte
    cycle,             \* Clock: the current cycle
    reg,               \* Cpu6502::reg : a, x, y, stack_pointer, program_counter, flags
    pending,           \* the instruction in flight: bus accesses still to issue, registers to commit
    halt,              \* why the cpu stopped ("none" while it has not)
    elapsed,           \* TRUE once the deadline of ExecuteWithTimeout has passed
    host               \* the caller's side: what it asked for and what it observed

asmvars ==
    <<sparse_map, current_position, labels, relocations, error, finished, line,
      before, nlines, ninstructions>>

cpuvars == <<mem, cycle, reg, pending, halt, elapsed, host>>

vars ==
    <<sparse_map, current_position, labels, relocations, error, finished, line,
      before, nlines, ninstructions, mem, cycle, reg, pending, halt, elapsed, host>>

----------------------------------------------------------------------------
(* Bounds of the model *)

MaxLines == 3
MaxInstructions == 2

----------------------------------------------------------------------------
(* Inputs: the source lines the assembler is fed *)

LabelNames == {"L1", "L2"}

\* operands of .org
OrgTargets == {0, 126, 127, 129, 130, 256}

\* operand lists of .byte and .word
ByteLists == {<<171>>, <<205, 239>>}
WordLists == {<<4660>>, <<48879, 513>>}

Mnemonics == {"NOP", "LDA", "STX", "JMP", "BEQ", "ASL"}

\* instruction operands as written in the source
ArgumentTexts ==
    {[form |-> "none", kind |-> "none", label |-> "", value |-> 0],
     [form |-> "imm", kind |-> "byte", label |-> "", value |-> 66],
     [form |-> "plain", kind |-> "byte", label |-> "", value |-> 16],
     [form |-> "plain", kind |-> "word", label |-> "", value |-> 4660],
     [form |-> "y", kind |-> "label", label |-> "L1", value |-> 0]}
    \cup {[form |-> "plain", kind |-> "label", label |-> n, value |-> 0] :
              n \in LabelNames}

----------------------------------------------------------------------------
(* Integer widths *)

AddressSpace == 65536

Address_t(n) == n % AddressSpace

\* ToBytes(uint16_t): little endian
ToBytesWord(w) == <<w % 256, (w \div 256) % 256>>

\* ToBytes(uint8_t)
ToBytesByte(b) == <<b % 256>>

\* ToBytes(NearOffset_t): an int8_t as its two's complement byte
ToBytesNearOffset(off) == <<(off + 256) % 256>>

----------------------------------------------------------------------------
(* Opcode table *)

InstructionSet ==
    [NOP |-> [Implied |-> 234],
     LDA |-> [IM |-> 169, ZP |-> 165, ZPX |-> 181, ABS |-> 173,
              ABSX |-> 189, ABSY |-> 185, INDX |-> 161, INDY |-> 177],
     STX |-> [ZP |-> 134, ZPY |-> 150, ABS |-> 142],
     JMP |-> [ABS |-> 76, ABS_IND |-> 108],
     BEQ |-> [REL |-> 240],
     BNE |-> [REL |-> 208],
     LDX |-> [IM |-> 162, ZP |-> 166, ZPY |-> 182, ABS |-> 174, ABSY |-> 190],
     STA |-> [ZP |-> 133, ZPX |-> 149, ABS |-> 141, ABSX |-> 157, ABSY |-> 153,
              INDX |-> 129, INDY |-> 145],
     EOR |-> [IM |-> 73, ZP |-> 69, ZPX |-> 85, ABS |-> 77,
              ABSX |-> 93, ABSY |-> 89, INDX |-> 65, INDY |-> 81],
     CPX |-> [IM |-> 224, ZP |-> 228, ABS |-> 236],
     ASL |-> [ACC |-> 10, ZP |-> 6, ZPX |-> 22, ABS |-> 14, ABSX |-> 30],
     TAY |-> [Implied |-> 168],
     INX |-> [Implied |-> 232],
     BRK |-> [IM |-> 0]]

OperandSize(mode) ==
    CASE mode \in {"Implied", "ACC"} -> 0
      [] mode \in {"IM", "ZP", "ZPX", "ZPY", "INDX", "INDY", "REL"} -> 1
      [] mode \in {"ABS", "ABSX", "ABSY", "ABS_IND"} -> 2

----------------------------------------------------------------------------
(* Errors *)

NoError == "none"

\* The compilation context the handlers work on
Ctx ==
    [sparse_map |-> sparse_map, current_position |-> current_position,
     labels |-> labels, relocations |-> relocations, error |-> error]

Throw(ctx, what) == IF ctx.error = NoError THEN [ctx EXCEPT !.error = what] ELSE ctx

----------------------------------------------------------------------------
(* SparseBinaryCode *)

PutByte(ctx, address, byte, overwrite) ==
    IF ctx.error # NoError THEN ctx
    ELSE IF address \in DOMAIN ctx.sparse_map /\ ~overwrite
         THEN Throw(ctx, "collision")
         ELSE [ctx EXCEPT !.sparse_map =
                  [a \in (DOMAIN ctx.sparse_map) \cup {address} |->
                      IF a = address THEN byte ELSE ctx.sparse_map[a]]]

RECURSIVE PutBytesFrom(_, _, _, _, _)
PutBytesFrom(ctx, address, bytes, overwrite, i) ==
    IF i > Len(bytes) \/ ctx.error # NoError THEN ctx
    ELSE PutBytesFrom(PutByte(ctx, Address_t(address + i - 1), bytes[i], overwrite),
                      address, bytes, overwrite, i + 1)

PutBytes(ctx, address, bytes, overwrite) == PutBytesFrom(ctx, address, bytes, overwrite, 1)

----------------------------------------------------------------------------
(* RelativeJumpOffset(position, target): the signed distance, or a throw *)

RelativeJumpOffset(position, target) ==
    LET off == target - position
    IN  [thrown |-> off < -128 \/ off > 127, value |-> off]

----------------------------------------------------------------------------
(* Directives *)

\* ParseByteCommand putting its bytes with overwrite = true
RECURSIVE ParseByteCommandOverwriting(_, _, _)
ParseByteCommandOverwriting(ctx, values, i) ==
    IF i > Len(values) \/ ctx.error # NoError THEN ctx
    ELSE LET put == PutBytes(ctx, ctx.current_position, ToBytesByte(values[i]), TRUE)
         IN  IF put.error # NoError THEN put
             ELSE ParseByteCommandOverwriting(
                      [put EXCEPT !.current_position = Address_t(@ + 1)], values, i + 1)

RECURSIVE ParseByteCommandFrom(_, _, _)
ParseByteCommandFrom(ctx, values, i) ==
    IF i > Len(values) \/ ctx.error # NoError THEN ctx
    ELSE LET put == PutBytes(ctx, ctx.current_position, ToBytesByte(values[i]), FALSE)
         IN  IF put.error # NoError THEN put
             ELSE ParseByteCommandFrom(
                      [put EXCEPT !.current_position = Address_t(@ + 1)], values, i + 1)

ParseByteCommand(ctx, values) == ParseByteCommandFrom(ctx, values, 1)

\* ParseWordCommand advancing the cursor by one per word
RECURSIVE ParseWordCommandAdvancingOne(_, _)
ParseWordCommandAdvancingOne(ctx, values) ==
    IF values = <<>> \/ ctx.error # NoError THEN ctx
    ELSE LET put == PutBytes(ctx, ctx.current_position, ToBytesWord(Head(values)), FALSE)
         IN  IF put.error # NoError THEN put
             ELSE ParseWordCommandAdvancingOne(
                      [put EXCEPT !.current_position = Address_t(@ + 1)], Tail(values))

RECURSIVE ParseWordCommandFrom(_, _, _)
ParseWordCommandFrom(ctx, values, i) ==
    IF i > Len(values) \/ ctx.error # NoError THEN ctx
    ELSE LET put == PutBytes(ctx, ctx.current_position, ToBytesWord(values[i]), FALSE)
         IN  IF put.error # NoError THEN put
             ELSE ParseWordCommandFrom(
                      [put EXCEPT !.current_position = Address_t(@ + 2)], values, i + 1)

ParseWordCommand(ctx, values) == ParseWordCommandFrom(ctx, values, 1)

ParseOriginCommand(ctx, new_pos) == [ctx EXCEPT !.current_position = new_pos]

----------------------------------------------------------------------------
(* Labels and relocations *)

\* std::optional<Address_t>: <<>> is nullopt, <<a>> holds a
NoOffset == <<>>
HasValue(offset) == Len(offset) > 0
ValueOr(offset, default) == IF HasValue(offset) THEN offset[1] ELSE default

\* RelocateReference measuring the distance from the operand byte itself
RelocateReferenceFromOperand(ctx, rel) ==
    IF ctx.error # NoError THEN ctx
    ELSE IF rel.mode = "Absolute"
         THEN PutBytes(ctx, rel.position, ToBytesWord(ctx.current_position), TRUE)
         ELSE LET off == RelativeJumpOffset(rel.position, ctx.current_position)
              IN  IF off.thrown THEN Throw(ctx, "jump_range")
                  ELSE PutBytes(ctx, rel.position, ToBytesNearOffset(off.value), TRUE)

\* RelocateReference patching two bytes whatever the mode
RelocateReferenceAlwaysWord(ctx, rel) ==
    IF ctx.error # NoError THEN ctx
    ELSE PutBytes(ctx, rel.position, ToBytesWord(ctx.current_position), TRUE)

\* The patch of one reference of a label being defined at current_position
RelocateReference(ctx, rel) ==
    IF ctx.error # NoError THEN ctx
    ELSE IF rel.mode = "Absolute"
         THEN PutBytes(ctx, rel.position, ToBytesWord(ctx.current_position), TRUE)
         ELSE LET off == RelativeJumpOffset(Address_t(rel.position + 1),
                                            ctx.current_position)
              IN  IF off.thrown THEN Throw(ctx, "jump_range")
                  ELSE PutBytes(ctx, rel.position, ToBytesNearOffset(off.value), TRUE)

\* RelocateLabel leaving the queued references as they were emitted
RelocateLabelSkipped(ctx, name) == ctx

RECURSIVE RelocateLabelFrom(_, _, _)
RelocateLabelFrom(ctx, refs, i) ==
    IF i > Len(refs) \/ ctx.error # NoError THEN ctx
    ELSE RelocateLabelFrom(RelocateReference(ctx, refs[i]), refs, i + 1)

RelocateLabel(ctx, name) == RelocateLabelFrom(ctx, ctx.labels[name].label_references, 1)

\* AddLabel without the check for an earlier definition
AddLabelRedefining(ctx, name) ==
    IF name \notin DOMAIN ctx.labels
    THEN [ctx EXCEPT !.labels = ctx.labels @@
             (name :> [offset |-> <<ctx.current_position>>, imported |-> FALSE,
                       label_references |-> <<>>])]
    ELSE RelocateLabel(
             [ctx EXCEPT !.labels[name].imported = FALSE,
                         !.labels[name].offset = <<ctx.current_position>>],
             name)

\* AddLabel that leaves the imported mark of a referenced label as it was
AddLabelKeepingImported(ctx, name) ==
    IF name \notin DOMAIN ctx.labels
    THEN [ctx EXCEPT !.labels = ctx.labels @@
             (name :> [offset |-> <<ctx.current_position>>, imported |-> FALSE,
                       label_references |-> <<>>])]
    ELSE IF HasValue(ctx.labels[name].offset)
         THEN Throw(ctx, "label_already_defined")
         ELSE RelocateLabel(
                  [ctx EXCEPT !.labels[name].offset = <<ctx.current_position>>],
                  name)

AddLabel(ctx, name) ==
    IF name \notin DOMAIN ctx.labels
    THEN [ctx EXCEPT !.labels = ctx.labels @@
             (name :> [offset |-> <<ctx.current_position>>, imported |-> FALSE,
                       label_references |-> <<>>])]
    ELSE LET found == [ctx EXCEPT !.labels[name].imported = FALSE]
         IN  IF HasValue(found.labels[name].offset)
             THEN Throw(found, "label_already_defined")
             ELSE RelocateLabel(
                      [found EXCEPT !.labels[name].offset = <<ctx.current_position>>],
                      name)

----------------------------------------------------------------------------
(* Instruction arguments *)

NullArgument == [kind |-> "nullptr", label |-> "", data |-> <<>>]
LabelArgument(n) == [kind |-> "label", label |-> n, data |-> <<>>]
DataArgument(bytes) == [kind |-> "data", label |-> "", data |-> bytes]

\* ParseInstructionArgument: the operand text as the address modes it may
\* denote and its value (nothing, a label name, or literal bytes)
ParseInstructionArgument(text) ==
    CASE text.form = "none" ->
            [possible_address_modes |-> {"Implied", "ACC"},
             argument_value |-> NullArgument]
      [] text.form = "imm" ->
            [possible_address_modes |-> {"IM"},
             argument_value |-> DataArgument(ToBytesByte(text.value))]
      [] text.kind = "label" ->
            [possible_address_modes |->
                 CASE text.form = "plain" -> {"ABS", "ZP", "REL"}
                   [] text.form = "x" -> {"ABSX", "ZPX"}
                   [] text.form = "y" -> {"ABSY", "ZPY"},
             argument_value |-> LabelArgument(text.label)]
      [] text.kind = "byte" ->
            [possible_address_modes |->
                 CASE text.form = "plain" -> {"ZP"}
                   [] text.form = "x" -> {"ZPX"}
                   [] text.form = "y" -> {"ZPY"},
             argument_value |-> DataArgument(ToBytesByte(text.value))]
      [] text.kind = "word" ->
            [possible_address_modes |->
                 CASE text.form = "plain" -> {"ABS"}
                   [] text.form = "x" -> {"ABSX"}
                   [] text.form = "y" -> {"ABSY"},
             argument_value |-> DataArgument(ToBytesWord(text.value))]

\* the nullptr overload taking whatever single mode is left
SelectInstuctionVariantImpliedAnySingle(modes) ==
    IF Cardinality(modes) # 1 THEN <<>> ELSE <<CHOOSE m \in modes : TRUE>>

\* SelectInstuctionVariant: <<>> when it throws, <<mode>> when it selects
SelectInstuctionVariantImplied(modes) ==
    IF Cardinality(modes) # 1 \/ modes # {"Implied"} THEN <<>> ELSE <<"Implied">>

\* SelectInstuctionVariant for a label that keeps the zero-page modes
SelectInstuctionVariantLabelUnfiltered(modes) ==
    IF Cardinality(modes) # 1 THEN <<>> ELSE <<CHOOSE m \in modes : TRUE>>

SelectInstuctionVariantLabel(modes) ==
    LET left == modes \ {"ZPX", "ZPY", "ZP"}
    IN  IF Cardinality(left) # 1 THEN <<>> ELSE <<CHOOSE m \in left : TRUE>>

SelectInstuctionVariantData(modes) ==
    IF Cardinality(modes) # 1 THEN <<>> ELSE <<CHOOSE m \in modes : TRUE>>

SelectInstuctionVariant(modes, argument_value) ==
    CASE argument_value.kind = "nullptr" -> SelectInstuctionVariantImplied(modes)
      [] argument_value.kind = "label" -> SelectInstuctionVariantLabel(modes)
      [] argument_value.kind = "data" -> SelectInstuctionVariantData(modes)

ProcessInstructionArgumentData(ctx, data) ==
    LET put == PutBytes(ctx, ctx.current_position, data, FALSE)
    IN  IF put.error # NoError THEN put
        ELSE [put EXCEPT !.current_position = Address_t(@ + Len(data))]

\* ProcessInstructionArgument(label) without the insert into program.relocations
ProcessInstructionArgumentLabelUnregistered(ctx, address_mode, label) ==
    LET position == ctx.current_position
        mode == IF address_mode = "REL" THEN "Relative" ELSE "Absolute"
        relocation == [target_label |-> label, position |-> position, mode |-> mode]
        referenced ==
            IF label \notin DOMAIN ctx.labels
            THEN [ctx EXCEPT !.labels = ctx.labels @@
                     (label :> [offset |-> NoOffset, imported |-> TRUE,
                                label_references |-> <<relocation>>])]
            ELSE [ctx EXCEPT !.labels[label].label_references = Append(@, relocation)]
        label_addr == ValueOr(referenced.labels[label].offset, position)
        off == RelativeJumpOffset(Address_t(position + 1), label_addr)
    IN  IF address_mode = "REL"
        THEN IF off.thrown THEN Throw(referenced, "jump_range")
             ELSE ProcessInstructionArgumentData(referenced,
                                                 ToBytesNearOffset(off.value))
        ELSE ProcessInstructionArgumentData(referenced, ToBytesWord(label_addr))

ProcessInstructionArgumentLabel(ctx, address_mode, label) ==
    LET position == ctx.current_position
        mode == IF address_mode = "REL" THEN "Relative" ELSE "Absolute"
        relocation == [target_label |-> label, position |-> position, mode |-> mode]
        referenced ==
            IF label \notin DOMAIN ctx.labels
            THEN [ctx EXCEPT !.labels = ctx.labels @@
                     (label :> [offset |-> NoOffset, imported |-> TRUE,
                                label_references |-> <<relocation>>])]
            ELSE [ctx EXCEPT !.labels[label].label_references = Append(@, relocation)]
        label_addr == ValueOr(referenced.labels[label].offset, position)
        off == RelativeJumpOffset(Address_t(position + 1), label_addr)
        emitted ==
            IF address_mode = "REL"
            THEN IF off.thrown THEN Throw(referenced, "jump_range")
                 ELSE ProcessInstructionArgumentData(referenced,
                                                     ToBytesNearOffset(off.value))
            ELSE ProcessInstructionArgumentData(referenced, ToBytesWord(label_addr))
    IN  IF emitted.error # NoError THEN emitted
        ELSE [emitted EXCEPT !.relocations = @ \cup {relocation}]

ProcessInstructionArgument(ctx, address_mode, argument_value) ==
    CASE argument_value.kind = "nullptr" -> ctx
      [] argument_value.kind = "label" ->
            ProcessInstructionArgumentLabel(ctx, address_mode, argument_value.label)
      [] argument_value.kind = "data" ->
            ProcessInstructionArgumentData(ctx, argument_value.data)

\* ParseInstruction that advances the cursor before it selects the variant
ParseInstructionAdvancingFirst(ctx, mnemonic, text) ==
    LET argument == ParseInstructionArgument(text)
        variants == InstructionSet[mnemonic]
        address_modes == argument.possible_address_modes \cap DOMAIN variants
        selected == SelectInstuctionVariant(address_modes, argument.argument_value)
        advanced == [ctx EXCEPT !.current_position = Address_t(@ + 1)]
    IN  IF selected = <<>> THEN Throw(advanced, "select_variant")
        ELSE LET opcode == variants[selected[1]]
                 put == PutByte(advanced, ctx.current_position, opcode, FALSE)
             IN  IF put.error # NoError THEN put
                 ELSE ProcessInstructionArgument(put, selected[1],
                                                 argument.argument_value)

\* ParseInstruction that does not advance the cursor past the opcode
ParseInstructionOpcodeInPlace(ctx, mnemonic, text) ==
    LET argument == ParseInstructionArgument(text)
        variants == InstructionSet[mnemonic]
        address_modes == argument.possible_address_modes \cap DOMAIN variants
        selected == SelectInstuctionVariant(address_modes, argument.argument_value)
    IN  IF selected = <<>> THEN Throw(ctx, "select_variant")
        ELSE IF OperandSize(selected[1]) = 0
             THEN PutByte(ctx, ctx.current_position, variants[selected[1]], FALSE)
             ELSE ProcessInstructionArgument(ctx, selected[1], argument.argument_value)

ParseInstruction(ctx, mnemonic, text) ==
    LET argument == ParseInstructionArgument(text)
        variants == InstructionSet[mnemonic]
        address_modes == argument.possible_address_modes \cap DOMAIN variants
        selected == SelectInstuctionVariant(address_modes, argument.argument_value)
    IN  IF selected = <<>> THEN Throw(ctx, "select_variant")
        ELSE LET opcode == variants[selected[1]]
                 advanced == [ctx EXCEPT !.current_position = Address_t(@ + 1)]
                 put == PutByte(advanced, ctx.current_position, opcode, FALSE)
             IN  IF put.error # NoError THEN put
                 ELSE ProcessInstructionArgument(put, selected[1],
                                                 argument.argument_value)

----------------------------------------------------------------------------
(* End of input *)

UndefinedSymbols(ctx) ==
    {n \in DOMAIN ctx.labels :
        ~ctx.labels[n].imported /\ ~HasValue(ctx.labels[n].offset)}

Finalize(ctx) ==
    IF UndefinedSymbols(ctx) # {} THEN Throw(ctx, "undefined_symbol") ELSE ctx

----------------------------------------------------------------------------
(* The assembler as a state machine: one step per source line *)

\* the machine while only the assembler runs: constructed, never started
Registers(a, x, y, sp, pc, flags) ==
    [a |-> a, x |-> x, y |-> y, stack_pointer |-> sp, program_counter |-> pc,
     flags |-> flags]

NoInstruction == [accesses |-> <<>>]

MachineOff ==
    /\ mem = <<>>
    /\ cycle = 0
    /\ reg = Registers(0, 0, 0, 0, 0, 0)
    /\ pending = NoInstruction
    /\ halt = "none"
    /\ elapsed = FALSE
    /\ host = [kind |-> "assembler"]

Init ==
    /\ MachineOff
    /\ sparse_map = <<>>
    /\ current_position = 0
    /\ labels = <<>>
    /\ relocations = {}
    /\ error = NoError
    /\ finished = FALSE
    /\ line = [kind |-> "start"]
    /\ before = [sparse_map |-> <<>>, current_position |-> 0, labels |-> <<>>,
                 relocations |-> {}, error |-> NoError]
    /\ nlines = 0
    /\ ninstructions = 0

Reading == error = NoError /\ ~finished /\ nlines < MaxLines

Becomes(ctx, ln) ==
    /\ sparse_map' = ctx.sparse_map
    /\ current_position' = ctx.current_position
    /\ labels' = ctx.labels
    /\ relocations' = ctx.relocations
    /\ error' = ctx.error
    /\ line' = ln
    /\ before' = Ctx
    /\ nlines' = nlines + 1
    /\ ninstructions' = ninstructions + (IF ln.kind = "instruction" THEN 1 ELSE 0)
    /\ UNCHANGED finished
    /\ UNCHANGED cpuvars

OriginLine ==
    /\ Reading
    /\ \E w \in OrgTargets :
          Becomes(ParseOriginCommand(Ctx, w), [kind |-> "org", value |-> w])

ByteLine ==
    /\ Reading
    /\ \E values \in ByteLists :
          Becomes(ParseByteCommand(Ctx, values), [kind |-> "byte", values |-> values])

WordLine ==
    /\ Reading
    /\ \E values \in WordLists :
          Becomes(ParseWordCommand(Ctx, values), [kind |-> "word", values |-> values])

LabelLine ==
    /\ Reading
    /\ \E name \in LabelNames :
          Becomes(AddLabel(Ctx, name), [kind |-> "label", name |-> name])

InstructionLine ==
    /\ Reading
    /\ ninstructions < MaxInstructions
    /\ \E mnemonic \in Mnemonics, text \in ArgumentTexts :
          Becomes(ParseInstruction(Ctx, mnemonic, text),
                  [kind |-> "instruction", mnemonic |-> mnemonic, text |-> text])

EndOfInput ==
    /\ error = NoError /\ ~finished
    /\ error' = Finalize(Ctx).error
    /\ finished' = (Finalize(Ctx).error = NoError)
    /\ line' = [kind |-> "end"]
    /\ before' = Ctx
    /\ UNCHANGED <<sparse_map, current_position, labels, relocations, nlines, ninstructions>>
    /\ UNCHANGED cpuvars

\* RelocateLabel as a function of the label it is given: a label with one
\* queued reference of any RelocationMode, about to be defined at any cursor
RelocationModes == {"Absolute", "Relative", "ZeroPage"}

PatchSites == {1, 16, 100, 300}

DefinitionSites == {0, 17, 32, 127, 144, 255, 256, 300, 511}

InitRelocate ==
    \E position \in PatchSites, mode \in RelocationModes, target \in DefinitionSites :
        LET rel == [target_label |-> "L1", position |-> position, mode |-> mode]
            lbls == "L1" :> [offset |-> NoOffset, imported |-> TRUE,
                             label_references |-> <<rel>>]
            image == (position :> 85) @@ ((position + 1) :> 234)
        IN  /\ MachineOff
            /\ sparse_map = image
            /\ current_position = target
            /\ labels = lbls
            /\ relocations = {rel}
            /\ error = NoError
            /\ finished = FALSE
            /\ line = [kind |-> "start"]
            /\ before = [sparse_map |-> image, current_position |-> target,
                         labels |-> lbls, relocations |-> {rel}, error |-> NoError]
            /\ nlines = 0
            /\ ninstructions = 0

NextRelocate == LabelLine

SpecRelocate == InitRelocate /\ [][NextRelocate]_vars

Next ==
    \/ OriginLine
    \/ ByteLine
    \/ WordLine
    \/ LabelLine
    \/ InstructionLine
    \/ EndOfInput

Spec == Init /\ [][Next]_vars

----------------------------------------------------------------------------
(* Properties *)

Cursor0 == before.current_position

LineIs(kind) == line.kind = kind

\* the two's complement byte of a signed distance in -128..127
SignedByte(delta) == IF delta < 0 THEN delta + 256 ELSE delta

CellIs(a, byte) == a \in DOMAIN sparse_map /\ sparse_map[a] = byte

\* the bytes at r.position encode the offset of r's target under r.mode
RelocationEncodes(r) ==
    /\ r.target_label \in DOMAIN labels
    /\ HasValue(labels[r.target_label].offset)
    /\ LET target == labels[r.target_label].offset[1]
           delta == target - (r.position + 1)
       IN  IF r.mode = "Absolute"
           THEN /\ CellIs(r.position, target % 256)
                /\ CellIs(r.position + 1, target \div 256)
           ELSE /\ delta \in -128..127
                /\ CellIs(r.position, SignedByte(delta))

\* C1: in every assembled program, the bytes at the position of every
\* relocation encode the offset of its target label under its mode (Absolute:
\* low byte then high byte; Relative: offset - (position + 1) as a signed byte).
C1_RelocationsEncodeTargets ==
    finished => \A r \in relocations : RelocationEncodes(r)

\* The same for the relocations whose target label has been defined, at every
\* point of an assembly that has not failed.
ResolvedRelocationsEncodeTargets ==
    error = NoError =>
        \A r \in relocations :
            HasValue(labels[r.target_label].offset) => RelocationEncodes(r)

\* C2: a source that references a label it never defines does not assemble:
\* no program is handed out in which a referenced label has no offset.
C2_UndefinedLabelFails ==
    finished => \A n \in DOMAIN labels : HasValue(labels[n].offset)

\* The end-of-input check as the specification words it: no program holds a
\* symbol with imported = false and no offset.
NoUnimportedUndefinedSymbol ==
    finished => \A n \in DOMAIN labels :
                    labels[n].imported \/ HasValue(labels[n].offset)

OldCellsKept ==
    \A a \in DOMAIN before.sparse_map :
        a \in DOMAIN sparse_map /\ sparse_map[a] = before.sparse_map[a]

\* C3: a .org, .byte, .word or instruction line never replaces a byte emitted
\* earlier, and when such a line succeeds every cell it emitted (from the
\* cursor it started at up to the cursor it left) was undefined before: a line
\* whose bytes overlap an earlier one fails.
C3_NoSilentOverwrite ==
    LineIs("org") \/ LineIs("byte") \/ LineIs("word") \/ LineIs("instruction") =>
        /\ OldCellsKept
        /\ (error = NoError /\ ~LineIs("org")) =>
               \A a \in Cursor0 .. (current_position - 1) :
                   a \notin DOMAIN before.sparse_map /\ a \in DOMAIN sparse_map

C3_Witness ==
    /\ LineIs("byte") /\ error = "collision"
    /\ Cursor0 \in DOMAIN before.sparse_map

DefinedBefore(n) == n \in DOMAIN before.labels /\ HasValue(before.labels[n].offset)

\* C4: defining a label that already has an offset is an error that leaves
\* the label's offset, the sparse image, the cursor and the relocation set
\* as they were.
C4_DuplicateLabelIsError ==
    (LineIs("label") /\ DefinedBefore(line.name)) =>
        /\ error = "label_already_defined"
        /\ labels[line.name].offset = before.labels[line.name].offset
        /\ sparse_map = before.sparse_map
        /\ current_position = before.current_position
        /\ relocations = before.relocations

C4_Witness ==
    /\ LineIs("label") /\ DefinedBefore(line.name)
    /\ before.labels[line.name].label_references # <<>>
    /\ current_position # before.labels[line.name].offset[1]

RelativeDistance(position, target) == target - (position + 1)

\* the references of label n queued when the last line was read
QueuedReferences(n) ==
    IF n \in DOMAIN before.labels
    THEN {before.labels[n].label_references[i] :
              i \in 1 .. Len(before.labels[n].label_references)}
    ELSE {}

\* C5: a Relative relocation whose target is known carries
\* delta = target - (position + 1) as a signed byte with delta in -128..127,
\* whether patched at the reference or by the later label definition; and the
\* assembly fails with a range error exactly on a delta outside that range.
C5_RelativePatchInRange ==
    /\ error = NoError =>
           \A r \in relocations :
               (r.mode = "Relative" /\ HasValue(labels[r.target_label].offset)) =>
                   LET delta == RelativeDistance(r.position,
                                                 labels[r.target_label].offset[1])
                   IN  delta \in -128..127 /\ CellIs(r.position, SignedByte(delta))
    /\ error = "jump_range" =>
           \/ /\ LineIs("label")
              /\ \E r \in QueuedReferences(line.name) :
                     /\ r.mode = "Relative"
                     /\ RelativeDistance(r.position, Cursor0) \notin -128..127
           \/ /\ LineIs("instruction")
              /\ line.text.kind = "label"
              /\ DefinedBefore(line.text.label)
              /\ RelativeDistance(Cursor0 + 1, before.labels[line.text.label].offset[1])
                     \notin -128..127

\* a forward branch of +127 resolved by the label definition
C5_Witness ==
    /\ LineIs("label") /\ error = NoError
    /\ \E r \in QueuedReferences(line.name) :
           r.mode = "Relative" /\ RelativeDistance(r.position, Cursor0) = 127

\* a backward branch of -128 patched at the reference
BackwardBranchAtLimit ==
    /\ LineIs("instruction") /\ error = NoError
    /\ \E r \in relocations \ before.relocations :
           /\ r.mode = "Relative"
           /\ DefinedBefore(r.target_label)
           /\ RelativeDistance(r.position, labels[r.target_label].offset[1]) = -128

\* a branch needing +128, refused when the label is defined
ForwardBranchTooFar ==
    /\ LineIs("label") /\ error = "jump_range"
    /\ \E r \in QueuedReferences(line.name) :
           r.mode = "Relative" /\ RelativeDistance(r.position, Cursor0) = 128

ZeroPageModes == {"ZP", "ZPX", "ZPY"}

ZeroPageOpcodes(mnemonic) ==
    {InstructionSet[mnemonic][m] : m \in DOMAIN InstructionSet[mnemonic] \cap ZeroPageModes}

LabelInstruction == LineIs("instruction") /\ line.text.kind = "label"

OpcodeEmitted == Cursor0 \notin DOMAIN before.sparse_map /\ Cursor0 \in DOMAIN sparse_map

\* C6: an instruction whose argument is a label never emits the opcode of a
\* zero-page address mode (ZP, ZPX, ZPY), also when the label is already
\* defined below 0x100; and unless the mnemonic is a branch, its operand is two
\* bytes.
C6_LabelNeverZeroPage ==
    LabelInstruction =>
        /\ OpcodeEmitted => sparse_map[Cursor0] \notin ZeroPageOpcodes(line.mnemonic)
        /\ error = NoError =>
               /\ OpcodeEmitted
               /\ "REL" \notin DOMAIN InstructionSet[line.mnemonic] =>
                      /\ current_position = Cursor0 + 3
                      /\ DOMAIN sparse_map =
                             DOMAIN before.sparse_map \cup (Cursor0 .. (Cursor0 + 2))

C6_Witness ==
    /\ LabelInstruction /\ error = NoError
    /\ line.mnemonic = "LDA"
    /\ DefinedBefore(line.text.label)
    /\ before.labels[line.text.label].offset[1] < 256

\* the address modes left after intersecting the argument's possible modes with
\* the mnemonic's and dropping the zero-page ones of a label argument
RemainingModes(mnemonic, text) ==
    LET met == ParseInstructionArgument(text).possible_address_modes
                   \cap DOMAIN InstructionSet[mnemonic]
    IN  IF text.kind = "label" THEN met \ ZeroPageModes ELSE met

\* C7: when the address modes left after intersecting and filtering are not
\* exactly one, the instruction fails and the sparse image, the cursor, the
\* labels and the relocations are as they were.
C7_AmbiguousModeFailsUntouched ==
    (LineIs("instruction")
        /\ Cardinality(RemainingModes(line.mnemonic, line.text)) # 1) =>
        /\ error # NoError
        /\ sparse_map = before.sparse_map
        /\ current_position = before.current_position
        /\ labels = before.labels
        /\ relocations = before.relocations

C7_Witness ==
    /\ LabelInstruction /\ error = "select_variant"
    /\ RemainingModes(line.mnemonic, line.text) = {}
    /\ ParseInstructionArgument(line.text).possible_address_modes
           \cap DOMAIN InstructionSet[line.mnemonic] # {}
    /\ before.sparse_map # <<>>

\* the operand bytes an operand text stands for, when it is a literal
LiteralBytes(text) ==
    CASE text.kind = "byte" -> <<text.value>>
      [] text.kind = "word" -> <<text.value % 256, text.value \div 256>>
      [] OTHER -> <<>>

C10_ByteAndWordLayout ==
    /\ (LineIs("byte") /\ error = NoError) =>
           LET n == Len(line.values)
           IN  /\ current_position = Cursor0 + n
               /\ \A i \in 0 .. (n - 1) : CellIs(Cursor0 + i, line.values[i + 1])
               /\ DOMAIN sparse_map =
                      DOMAIN before.sparse_map \cup (Cursor0 .. (Cursor0 + n - 1))
    /\ (LineIs("word") /\ error = NoError) =>
           LET n == Len(line.values)
           IN  /\ current_position = Cursor0 + 2 * n
               /\ \A i \in 0 .. (n - 1) :
                      /\ CellIs(Cursor0 + 2 * i, line.values[i + 1] % 256)
                      /\ CellIs(Cursor0 + 2 * i + 1, line.values[i + 1] \div 256)
               /\ DOMAIN sparse_map =
                      DOMAIN before.sparse_map \cup (Cursor0 .. (Cursor0 + 2 * n - 1))

C10_Witness ==
    /\ LineIs("word") /\ error = NoError
    /\ Len(line.values) = 2
    /\ Cursor0 > 0
    /\ before.sparse_map # <<>>

ZeroPagePatchedAsRelative ==
    LineIs("label") =>
        \A r \in QueuedReferences(line.name) :
            (r.mode = "ZeroPage" /\ ~DefinedBefore(line.name)) =>
                LET delta == RelativeDistance(r.position, Cursor0)
                IN  IF delta \in -128..127
                    THEN error = NoError /\ CellIs(r.position, SignedByte(delta))
                    ELSE error = "jump_range"

\* C22: in every state of the assembler a label has no offset exactly when it
\* is marked imported: a label first met as an operand is entered imported and
\* without offset, and its definition sets the offset to the cursor and clears
\* the mark, so no label is both not imported and without offset
C22_OffsetAbsentIffImported ==
    /\ \A n \in DOMAIN labels : (labels[n].offset = NoOffset) <=> labels[n].imported
    /\ \A n \in DOMAIN labels \ DOMAIN before.labels :
           /\ LineIs("instruction") =>
                  labels[n].imported /\ labels[n].offset = NoOffset
           /\ LineIs("label") =>
                  ~labels[n].imported /\ labels[n].offset = <<Cursor0>>
    /\ (LineIs("label") /\ ~DefinedBefore(line.name)) =>
           ~labels[line.name].imported /\ labels[line.name].offset = <<Cursor0>>

\* a label referenced by an instruction and defined by a later line, while
\* another label is still only referenced
C22_Witness ==
    /\ LineIs("label") /\ error = NoError
    /\ line.name \in DOMAIN before.labels
    /\ before.labels[line.name].imported
    /\ ~labels[line.name].imported
    /\ \E n \in DOMAIN labels : labels[n].imported

\* how often relocation r is queued in the reference list of label n
TimesQueued(n, r) ==
    Cardinality({i \in DOMAIN labels[n].label_references :
                     labels[n].label_references[i] = r})

\* C23: after every line processed without error the relocation set and the
\* labels' reference lists agree: each relocation is queued once, at the label
\* it targets and at no other; every queued reference is in the relocation
\* set; and no two relocations have the same position
C23_RelocationsMatchReferences ==
    error = NoError =>
        /\ \A r \in relocations :
               /\ r.target_label \in DOMAIN labels
               /\ \A n \in DOMAIN labels :
                      TimesQueued(n, r) = (IF n = r.target_label THEN 1 ELSE 0)
        /\ \A n \in DOMAIN labels :
               \A i \in DOMAIN labels[n].label_references :
                   labels[n].label_references[i] \in relocations
        /\ \A r1, r2 \in relocations : r1.position = r2.position => r1 = r2

\* a label with two queued references being defined, a second label having
\* none
C23_Witness ==
    /\ LineIs("label") /\ error = NoError
    /\ Len(labels[line.name].label_references) = 2
    /\ Cardinality(relocations) = 2

\* a line that fails in its operand leaves the reference queued at the label
\* and out of the relocation set
FailedLineLeavesReferenceQueued ==
    /\ LineIs("instruction") /\ error # NoError
    /\ \E n \in DOMAIN labels :
           \E i \in DOMAIN labels[n].label_references :
               labels[n].label_references[i] \notin relocations

\* bytes a relocation of mode rm patches
RelocationSize(rm) == IF rm = "Absolute" THEN 2 ELSE 1

\* the operand cells of the references queued at label n
OperandCells(n) ==
    UNION {{Address_t(r.position + k) : k \in 0 .. RelocationSize(r.mode) - 1} :
               r \in QueuedReferences(n)}

\* C24: defining a label that has queued references (RelocateLabel, patching
\* with overwrite) rewrites only the operand cells of those references: the
\* set of defined addresses of the image stays as it was, every cell outside
\* the operand cells keeps its value, and the cursor does not move
C24_RelocateLabelFrame ==
    (LineIs("label") /\ line.name \in DOMAIN before.labels
                     /\ ~DefinedBefore(line.name)) =>
        /\ DOMAIN sparse_map = DOMAIN before.sparse_map
        /\ \A a \in DOMAIN sparse_map :
               a \notin OperandCells(line.name) => sparse_map[a] = before.sparse_map[a]
        /\ current_position = Cursor0

\* two queued references, one patched with a new value, the cells around
\* them defined
C24_Witness ==
    /\ LineIs("label") /\ error = NoError
    /\ Cardinality(QueuedReferences(line.name)) = 2
    /\ \E a \in OperandCells(line.name) : sparse_map[a] # before.sparse_map[a]
    /\ DOMAIN sparse_map \ OperandCells(line.name) # {}

----------------------------------------------------------------------------
(* Memory on the cycle clock *)

MaxMemoryOps == 3

\* Memory() fills every cell with this byte
FillByte == 85

\* Clock of a freshly built machine, and of one that has already run
InitialCycles == {0, 5}

MemoryAddresses == {0, 6000, 65535}

MemoryData == {0, 255}

MemoryBlocks == {<<17>>, <<34, 51>>}

\* mem[address]
Cell(m, address) == IF address \in DOMAIN m THEN m[address] ELSE FillByte

\* Clock::WaitForNextCycle of the counting clock
WaitForNextCycle(c) == c + 1

LoadFillPattern(m, c, address) ==
    [r |-> FillByte, mem |-> m, cycle |-> WaitForNextCycle(c)]

LoadWithoutWaiting(m, c, address) ==
    [r |-> Cell(m, address), mem |-> m, cycle |-> c]

Load(m, c, address) ==
    [r |-> Cell(m, address), mem |-> m, cycle |-> WaitForNextCycle(c)]

StoreWithoutWaiting(m, c, address, data) ==
    [mem |-> (address :> data) @@ m, cycle |-> c]

Store(m, c, address, data) ==
    [mem |-> (address :> data) @@ m, cycle |-> WaitForNextCycle(c)]

Write(m, addr, data) ==
    [a \in DOMAIN m \cup (addr .. addr + Len(data) - 1) |->
        IF a \in addr .. addr + Len(data) - 1 THEN data[a - addr + 1] ELSE m[a]]

ReadRange(m, addr, len) == [i \in 1 .. len |-> Cell(m, addr + i - 1)]

\* the assembler while only the machine runs: no program under construction
NoProgram ==
    /\ sparse_map = <<>>
    /\ current_position = 0
    /\ labels = <<>>
    /\ relocations = {}
    /\ error = NoError
    /\ finished = FALSE
    /\ line = [kind |-> "start"]
    /\ before = [sparse_map |-> <<>>, current_position |-> 0, labels |-> <<>>,
                 relocations |-> {}, error |-> NoError]
    /\ nlines = 0
    /\ ninstructions = 0

\* a caller driving Memory directly: host counts its calls, keeps the clock
\* and the result of the last one, and logs every Store and Write in order
InitMemory ==
    /\ NoProgram
    /\ mem = <<>>
    /\ cycle \in InitialCycles
    /\ reg = Registers(0, 0, 0, 0, 0, 0)
    /\ pending = NoInstruction
    /\ halt = "none"
    /\ elapsed = FALSE
    /\ host = [kind |-> "memory", initial_cycle |-> cycle, loads |-> 0, stores |-> 0,
               calls |-> 0, op |-> "none", address |-> 0, r |-> <<>>,
               cycle_before |-> cycle, mem_before |-> <<>>, written |-> <<>>]

Called(op, address, r) ==
    [host EXCEPT !.calls = @ + 1, !.op = op, !.address = address, !.r = r,
                 !.loads = @ + (IF op = "Load" THEN 1 ELSE 0),
                 !.stores = @ + (IF op = "Store" THEN 1 ELSE 0),
                 !.cycle_before = cycle, !.mem_before = mem,
                 !.written = IF op \in {"Store", "Write"}
                             THEN Append(@, [addr |-> address, data |-> r])
                             ELSE @]

MemoryLoad ==
    /\ host.calls < MaxMemoryOps
    /\ \E address \in MemoryAddresses :
          LET out == Load(mem, cycle, address)
          IN  /\ mem' = out.mem
              /\ cycle' = out.cycle
              /\ host' = Called("Load", address, <<out.r>>)
    /\ UNCHANGED <<asmvars, reg, pending, halt, elapsed>>

MemoryStore ==
    /\ host.calls < MaxMemoryOps
    /\ \E address \in MemoryAddresses, data \in MemoryData :
          LET out == Store(mem, cycle, address, data)
          IN  /\ mem' = out.mem
              /\ cycle' = out.cycle
              /\ host' = Called("Store", address, <<data>>)
    /\ UNCHANGED <<asmvars, reg, pending, halt, elapsed>>

MemoryWriteTicking ==
    /\ host.calls < MaxMemoryOps
    /\ \E addr \in MemoryAddresses, data \in MemoryBlocks :
          /\ addr + Len(data) <= AddressSpace
          /\ mem' = Write(mem, addr, data)
          /\ cycle' = WaitForNextCycle(cycle)
          /\ host' = Called("Write", addr, data)
    /\ UNCHANGED <<asmvars, reg, pending, halt, elapsed>>

MemoryWrite ==
    /\ host.calls < MaxMemoryOps
    /\ \E addr \in MemoryAddresses, data \in MemoryBlocks :
          /\ addr + Len(data) <= AddressSpace
          /\ mem' = Write(mem, addr, data)
          /\ host' = Called("Write", addr, data)
    /\ UNCHANGED <<asmvars, cycle, reg, pending, halt, elapsed>>

MemoryReadRange ==
    /\ host.calls < MaxMemoryOps
    /\ \E addr \in MemoryAddresses, len \in 1 .. 2 :
          /\ addr + len <= AddressSpace
          /\ host' = Called("ReadRange", addr, ReadRange(mem, addr, len))
    /\ UNCHANGED <<asmvars, mem, cycle, reg, pending, halt, elapsed>>

NextMemory == MemoryLoad \/ MemoryStore \/ MemoryWrite \/ MemoryReadRange

SpecMemory == InitMemory /\ [][NextMemory]_vars

\* C11: every Load and every Store advances the clock by exactly one cycle, so
\* after any sequence of memory operations the clock reads its initial value
\* plus the number of Load and Store calls made, and it never goes back
C11_BusAccessTakesOneCycle ==
    host.kind = "memory" =>
        /\ cycle = host.initial_cycle + host.loads + host.stores
        /\ host.op \in {"Load", "Store"} => cycle = host.cycle_before + 1
        /\ cycle >= host.cycle_before

C11_Witness ==
    /\ host.kind = "memory"
    /\ host.loads >= 1 /\ host.stores >= 1 /\ host.calls > host.loads + host.stores
    /\ host.op = "Load"
    /\ host.initial_cycle > 0

\* the byte the i-th or an earlier logged Store or Write left at address a
RECURSIVE LastWrittenFrom(_, _, _)
LastWrittenFrom(written, a, i) ==
    IF i = 0 THEN 85
    ELSE IF a \in written[i].addr .. written[i].addr + Len(written[i].data) - 1
         THEN written[i].data[a - written[i].addr + 1]
         ELSE LastWrittenFrom(written, a, i - 1)

LastWritten(written, a) == LastWrittenFrom(written, a, Len(written))

\* the addresses the calls so far were made at, and the cells they cover
Touched ==
    MemoryAddresses \cup DOMAIN mem
        \cup {w.addr + 1 : w \in {host.written[i] : i \in DOMAIN host.written}}

\* C21: a freshly constructed memory reads 0x55 at every address; after any
\* sequence of Store and Write calls a Load of an address returns the byte most
\* recently stored or written there, or 0x55 when none was; and Load leaves
\* the contents as they were
C21_LoadReturnsLastWritten ==
    host.kind = "memory" =>
        /\ host.calls = 0 => \A a \in 0 .. AddressSpace - 1 : Cell(mem, a) = 85
        /\ host.op = "Load" =>
               /\ host.r = <<LastWritten(host.written, host.address)>>
               /\ mem = host.mem_before
        /\ \A a \in Touched : a < AddressSpace => Cell(mem, a) = LastWritten(host.written, a)

\* a Load of a cell that a Store and then a Write have both set
C21_Witness ==
    /\ host.kind = "memory"
    /\ host.op = "Load"
    /\ Len(host.written) = 2
    /\ host.written[1].addr = host.address /\ Len(host.written[1].data) = 1
    /\ host.written[2].addr = host.address /\ Len(host.written[2].data) = 2
    /\ host.r = <<34>>

\* C25: the bulk operations Write and ReadRange leave the clock where it was;
\* only Load and Store consume cycles
C25_BulkOperationsKeepClock ==
    host.kind = "memory" =>
        /\ host.op \in {"Write", "ReadRange"} => cycle = host.cycle_before
        /\ cycle # host.cycle_before => host.op \in {"Load", "Store"}

\* a ReadRange after a Write and a Store, the clock having advanced before
C25_Witness ==
    /\ host.kind = "memory"
    /\ host.op = "ReadRange"
    /\ host.stores = 1
    /\ Len(host.written) = 2
    /\ Len(host.written[2].data) = 2
    /\ cycle = host.initial_cycle + 1

\* a Load of a cell no call has set
FreshCellLoaded ==
    /\ host.kind = "memory"
    /\ host.op = "Load"
    /\ host.written # <<>>
    /\ host.r = <<85>>

----------------------------------------------------------------------------
(* Cpu6502: registers, flags, decoding, effective addresses *)

\* Registers::Flags, bits N V - B D I Z C
CarryFlag == 1
ZeroFlag == 2
InterruptFlag == 4
DecimalFlag == 8
BreakFlag == 16
UnusedFlag == 32
OverflowFlag == 64
NegativeFlag == 128

ByteRange == 256

StackPage == 256
ResetVector == 65532
IrqVector == 65534
ResetStackPointer == 253

IsSet(flags, flag) == (flags \div flag) % 2 = 1

SetFlag(flags, flag, on) ==
    IF on THEN (IF IsSet(flags, flag) THEN flags ELSE flags + flag)
    ELSE (IF IsSet(flags, flag) THEN flags - flag ELSE flags)

SetNegativeZero(flags, value) ==
    SetFlag(SetFlag(flags, ZeroFlag, value = 0), NegativeFlag, value >= 128)

RECURSIVE Xor(_, _)
Xor(a, b) ==
    IF a = 0 THEN b
    ELSE IF b = 0 THEN a
    ELSE ((a + b) % 2) + 2 * Xor(a \div 2, b \div 2)

MemPtr(n) == n % AddressSpace

Reg8(n) == n % ByteRange

Page(address) == address \div ByteRange

\* the offset byte of a branch as a signed distance
SignedOffset(byte) == IF byte >= 128 THEN byte - ByteRange ELSE byte

\* bus accesses, in the order the cpu issues them
LoadAccess(address) == [op |-> "Load", address |-> address, data |-> 0]

StoreAccess(address, data) == [op |-> "Store", address |-> address, data |-> data]

\* the table entry of an opcode byte: <<[mnemonic, mode]>>, or <<>> for a
\* byte the table does not have
Decode(byte) ==
    LET hits == {e \in [mnemonic : DOMAIN InstructionSet,
                        mode : {"Implied", "ACC", "IM", "ZP", "ZPX", "ZPY", "ABS",
                                "ABSX", "ABSY", "ABS_IND", "INDX", "INDY", "REL"}] :
                    /\ e.mode \in DOMAIN InstructionSet[e.mnemonic]
                    /\ InstructionSet[e.mnemonic][e.mode] = byte}
    IN  IF hits = {} THEN <<>> ELSE <<CHOOSE e \in hits : TRUE>>

ReadInstructions == {"LDA", "LDX", "EOR", "CPX"}
WriteInstructions == {"STA", "STX"}
ModifyInstructions == {"ASL"}
ImpliedInstructions == {"NOP", "TAY", "INX"}
BranchInstructions == {"BEQ", "BNE"}

\* base cycle count of a table entry
BaseCycles(mnemonic, mode) ==
    CASE mnemonic = "BRK" -> 7
      [] mnemonic = "JMP" -> (IF mode = "ABS" THEN 3 ELSE 5)
      [] mnemonic \in BranchInstructions -> 2
      [] mnemonic \in ImpliedInstructions -> 2
      [] mnemonic \in ReadInstructions ->
            (CASE mode = "IM" -> 2
               [] mode = "ZP" -> 3
               [] mode \in {"ZPX", "ZPY", "ABS", "ABSX", "ABSY"} -> 4
               [] mode = "INDY" -> 5
               [] mode = "INDX" -> 6)
      [] mnemonic \in WriteInstructions ->
            (CASE mode = "ZP" -> 3
               [] mode \in {"ZPX", "ZPY", "ABS"} -> 4
               [] mode \in {"ABSX", "ABSY"} -> 5
               [] mode \in {"INDX", "INDY"} -> 6)
      [] mnemonic \in ModifyInstructions ->
            (CASE mode = "ACC" -> 2
               [] mode = "ZP" -> 5
               [] mode \in {"ZPX", "ABS"} -> 6
               [] mode = "ABSX" -> 7)

\* effective address of an operand that starts at operand_pc, with the
\* accesses spent on finding it (operand bytes left to right, then dummy
\* reads); always_dummy is set for instructions that write
EffectiveAddress(m, r, mode, operand_pc, always_dummy) ==
    LET first == Cell(m, operand_pc)
        second == Cell(m, MemPtr(operand_pc + 1))
        absolute == first + ByteRange * second
        Indexed(base, index, fetched) ==
            LET crossed == (base % ByteRange) + index >= ByteRange
                unfixed == Page(base) * ByteRange + Reg8(base + index)
            IN  [address |-> MemPtr(base + index),
                 accesses |-> fetched \o (IF crossed \/ always_dummy
                                          THEN <<LoadAccess(unfixed)>> ELSE <<>>),
                 crossed |-> crossed]
        one == <<LoadAccess(operand_pc)>>
        two == <<LoadAccess(operand_pc), LoadAccess(MemPtr(operand_pc + 1))>>
    IN  CASE mode = "IM" ->
                [address |-> operand_pc, accesses |-> <<>>, crossed |-> FALSE]
          [] mode = "ZP" ->
                [address |-> first, accesses |-> one, crossed |-> FALSE]
          [] mode = "ZPX" ->
                [address |-> Reg8(first + r.x),
                 accesses |-> one \o <<LoadAccess(first)>>, crossed |-> FALSE]
          [] mode = "ZPY" ->
                [address |-> Reg8(first + r.y),
                 accesses |-> one \o <<LoadAccess(first)>>, crossed |-> FALSE]
          [] mode = "ABS" ->
                [address |-> absolute, accesses |-> two, crossed |-> FALSE]
          [] mode = "ABSX" -> Indexed(absolute, r.x, two)
          [] mode = "ABSY" -> Indexed(absolute, r.y, two)
          [] mode = "INDX" ->
                LET pointer == Reg8(first + r.x)
                IN  [address |-> Cell(m, pointer) + ByteRange * Cell(m, Reg8(pointer + 1)),
                     accesses |-> one \o <<LoadAccess(first), LoadAccess(pointer),
                                           LoadAccess(Reg8(pointer + 1))>>,
                     crossed |-> FALSE]
          [] mode = "INDY" ->
                Indexed(Cell(m, first) + ByteRange * Cell(m, Reg8(first + 1)), r.y,
                        one \o <<LoadAccess(first), LoadAccess(Reg8(first + 1))>>)

----------------------------------------------------------------------------
(* Cpu6502::ExecuteNextInstruction: one instruction as the bus accesses it
   issues, the registers it leaves and the halt it raises *)

Executed(r, accesses, halted, mnemonic, mode, penalty) ==
    [reg |-> r, accesses |-> accesses, halt |-> halted, mnemonic |-> mnemonic,
     mode |-> mode, penalty |-> penalty]

ReadOperand(m, r, mnemonic, mode) ==
    LET pc == r.program_counter
        ea == EffectiveAddress(m, r, mode, MemPtr(pc + 1), FALSE)
        value == Cell(m, ea.address)
        next == MemPtr(pc + 1 + OperandSize(mode))
        after ==
            CASE mnemonic = "LDA" ->
                    [r EXCEPT !.a = value, !.flags = SetNegativeZero(@, value)]
              [] mnemonic = "LDX" ->
                    [r EXCEPT !.x = value, !.flags = SetNegativeZero(@, value)]
              [] mnemonic = "EOR" ->
                    [r EXCEPT !.a = Xor(r.a, value),
                              !.flags = SetNegativeZero(@, Xor(r.a, value))]
              [] mnemonic = "CPX" ->
                    [r EXCEPT !.flags =
                        SetFlag(SetNegativeZero(@, Reg8(r.x - value + ByteRange)),
                                CarryFlag, r.x >= value)]
    IN  Executed([after EXCEPT !.program_counter = next],
                 <<LoadAccess(pc)>> \o ea.accesses \o <<LoadAccess(ea.address)>>,
                 "none", mnemonic, mode, IF ea.crossed THEN 1 ELSE 0)

WriteOperand(m, r, mnemonic, mode) ==
    LET pc == r.program_counter
        ea == EffectiveAddress(m, r, mode, MemPtr(pc + 1), TRUE)
        value == IF mnemonic = "STA" THEN r.a ELSE r.x
    IN  Executed([r EXCEPT !.program_counter = MemPtr(pc + 1 + OperandSize(mode))],
                 <<LoadAccess(pc)>> \o ea.accesses \o <<StoreAccess(ea.address, value)>>,
                 "none", mnemonic, mode, 0)

\* ASL
ModifyOperand(m, r, mnemonic, mode) ==
    LET pc == r.program_counter
        ea == EffectiveAddress(m, r, mode, MemPtr(pc + 1), TRUE)
        old == IF mode = "ACC" THEN r.a ELSE Cell(m, ea.address)
        new == Reg8(old * 2)
        flags == SetFlag(SetNegativeZero(r.flags, new), CarryFlag, old >= 128)
    IN  IF mode = "ACC"
        THEN Executed([r EXCEPT !.a = new, !.flags = flags,
                                !.program_counter = MemPtr(pc + 1)],
                      <<LoadAccess(pc), LoadAccess(MemPtr(pc + 1))>>,
                      "none", mnemonic, mode, 0)
        ELSE Executed([r EXCEPT !.flags = flags,
                                !.program_counter = MemPtr(pc + 1 + OperandSize(mode))],
                      <<LoadAccess(pc)>> \o ea.accesses
                          \o <<LoadAccess(ea.address), StoreAccess(ea.address, old),
                               StoreAccess(ea.address, new)>>,
                      "none", mnemonic, mode, 0)

ImpliedOperand(m, r, mnemonic) ==
    LET pc == r.program_counter
        after ==
            CASE mnemonic = "NOP" -> r
              [] mnemonic = "TAY" ->
                    [r EXCEPT !.y = r.a, !.flags = SetNegativeZero(@, r.a)]
              [] mnemonic = "INX" ->
                    [r EXCEPT !.x = Reg8(r.x + 1),
                              !.flags = SetNegativeZero(@, Reg8(r.x + 1))]
    IN  Executed([after EXCEPT !.program_counter = MemPtr(pc + 1)],
                 <<LoadAccess(pc), LoadAccess(MemPtr(pc + 1))>>,
                 "none", mnemonic, "Implied", 0)

\* penalties of a branch: one cycle when taken, two more across a page
Branch(m, r, mnemonic) ==
    LET pc == r.program_counter
        next == MemPtr(pc + 2)
        target == MemPtr(next + SignedOffset(Cell(m, MemPtr(pc + 1))) + AddressSpace)
        taken == IsSet(r.flags, ZeroFlag) = (mnemonic = "BEQ")
        crossed == Page(target) # Page(next)
        unfixed == Page(next) * ByteRange + Reg8(target)
    IN  IF ~taken
        THEN Executed([r EXCEPT !.program_counter = next],
                      <<LoadAccess(pc), LoadAccess(MemPtr(pc + 1))>>,
                      "none", mnemonic, "REL", 0)
        ELSE Executed([r EXCEPT !.program_counter = target],
                      <<LoadAccess(pc), LoadAccess(MemPtr(pc + 1)), LoadAccess(next)>>
                          \o (IF crossed THEN <<LoadAccess(unfixed), LoadAccess(unfixed)>>
                              ELSE <<>>),
                      "none", mnemonic, "REL", IF crossed THEN 3 ELSE 1)

Jump(m, r, mode) ==
    LET pc == r.program_counter
        operand == Cell(m, MemPtr(pc + 1)) + ByteRange * Cell(m, MemPtr(pc + 2))
        \* the high byte of the pointer comes from the page of its low byte
        high == Page(operand) * ByteRange + Reg8(operand + 1)
        fetched == <<LoadAccess(pc), LoadAccess(MemPtr(pc + 1)), LoadAccess(MemPtr(pc + 2))>>
    IN  IF mode = "ABS"
        THEN Executed([r EXCEPT !.program_counter = operand], fetched,
                      "none", "JMP", mode, 0)
        ELSE Executed([r EXCEPT !.program_counter =
                                    Cell(m, operand) + ByteRange * Cell(m, high)],
                      fetched \o <<LoadAccess(operand), LoadAccess(high)>>,
                      "none", "JMP", mode, 0)

\* BRK pushes PC + 1 and P with B set, takes the IRQ vector and halts the run
Break(m, r) ==
    LET pc == r.program_counter
        return == MemPtr(pc + 2)
        sp == r.stack_pointer
        pushes == <<StoreAccess(StackPage + sp, Page(return)),
                    StoreAccess(StackPage + Reg8(sp + ByteRange - 1), return % ByteRange),
                    StoreAccess(StackPage + Reg8(sp + ByteRange - 2),
                                SetFlag(SetFlag(r.flags, BreakFlag, TRUE),
                                        UnusedFlag, TRUE))>>
        pushed == [a \in {p.address : p \in {pushes[i] : i \in 1 .. 3}} \cup DOMAIN m |->
                      IF \E i \in 1 .. 3 : pushes[i].address = a
                      THEN pushes[CHOOSE i \in 1 .. 3 :
                                      /\ pushes[i].address = a
                                      /\ \A j \in i + 1 .. 3 : pushes[j].address # a].data
                      ELSE m[a]]
    IN  Executed([r EXCEPT !.stack_pointer = Reg8(sp + ByteRange - 3),
                           !.flags = SetFlag(@, InterruptFlag, TRUE),
                           !.program_counter =
                               Cell(pushed, IrqVector)
                                   + ByteRange * Cell(pushed, IrqVector + 1)],
                 <<LoadAccess(pc), LoadAccess(MemPtr(pc + 1))>> \o pushes
                     \o <<LoadAccess(IrqVector), LoadAccess(IrqVector + 1)>>,
                 "Brk", "BRK", "IM", 0)

ExecuteNextInstruction(m, r) ==
    LET pc == r.program_counter
        entry == Decode(Cell(m, pc))
    IN  IF entry = <<>>
        THEN Executed(r, <<LoadAccess(pc)>>, "IllegalOpcode", "", "", 0)
        ELSE LET mnemonic == entry[1].mnemonic
                 mode == entry[1].mode
             IN  CASE mnemonic \in ReadInstructions -> ReadOperand(m, r, mnemonic, mode)
                   [] mnemonic \in WriteInstructions -> WriteOperand(m, r, mnemonic, mode)
                   [] mnemonic \in ModifyInstructions -> ModifyOperand(m, r, mnemonic, mode)
                   [] mnemonic \in ImpliedInstructions -> ImpliedOperand(m, r, mnemonic)
                   [] mnemonic \in BranchInstructions -> Branch(m, r, mnemonic)
                   [] mnemonic = "JMP" -> Jump(m, r, mode)
                   [] mnemonic = "BRK" -> Break(m, r)

ResetKeepingDecimal(m, r) ==
    [r EXCEPT !.program_counter = Cell(m, ResetVector) + ByteRange * Cell(m, ResetVector + 1),
              !.stack_pointer = ResetStackPointer,
              !.flags = SetFlag(@, InterruptFlag, TRUE)]

\* Reset: PC from the reset vector, SP = 0xFD, I set, D cleared; the clock is
\* left alone
Reset(m, r) ==
    [r EXCEPT !.program_counter = Cell(m, ResetVector) + ByteRange * Cell(m, ResetVector + 1),
              !.stack_pointer = ResetStackPointer,
              !.flags = SetFlag(SetFlag(@, InterruptFlag, TRUE), DecimalFlag, FALSE)]

\* the bus accesses of an instruction, issued on the memory in their order
RECURSIVE Issue(_, _, _)
Issue(m, c, accesses) ==
    IF accesses = <<>> THEN [mem |-> m, cycle |-> c]
    ELSE LET access == Head(accesses)
             out == IF access.op = "Load" THEN Load(m, c, access.address)
                    ELSE Store(m, c, access.address, access.data)
         IN  Issue(out.mem, out.cycle, Tail(accesses))

----------------------------------------------------------------------------
(* BaseTest: the fixture that runs one instruction and compares *)

kBaseCodeAddress == 6000
kBaseDataAddress == 57344

\* RandomByte() draws of SetUp
RandomRegisters == {<<255, 255, 255, 1>>, <<0, 0, 1, 255>>}
RandomFlags == {0, 2, 255}
RandomZeroPage == {16, 128, 240}
RandomIndirect == {64, 254}
RandomTarget == {0, 55, 128}
RandomTestAddress == {0, 240}

\* the instructions the test bodies run: by address mode, bare, with a
\* branch offset, with a jump target
ModeTests ==
    {t \in [mnemonic : ReadInstructions \cup WriteInstructions \cup ModifyInstructions,
            mode : {"IM", "ACC", "ZP", "ZPX", "ZPY", "ABS", "ABSX", "ABSY", "INDX", "INDY"}] :
        t.mode \in DOMAIN InstructionSet[t.mnemonic]}

BranchOffsets == {16, 128}

JumpTargets == {4660, 57599}

MakeCodeWord(opcode, arg) == <<opcode, arg % ByteRange, arg \div ByteRange>>

MakeCodeBare(opcode) == <<opcode>>

MakeCodeByte(opcode, arg) == <<opcode, arg>>

\* WriteTestData: where the operand of the instruction is expected to be
\* read from, with the target byte (and the pointer to it) put there
WriteTestData(f, m, mode) ==
    LET x == f.expected_regs.x
        y == f.expected_regs.y
        pointed ==
            CASE mode = "INDX" -> Write(m, MemPtr(f.zero_page_address + x),
                                        <<f.indirect_address>>)
              [] mode = "INDY" -> Write(m, f.zero_page_address, <<f.indirect_address>>)
              [] OTHER -> m
        target_address ==
            CASE mode = "ABS" -> f.test_address
              [] mode = "ZP" -> f.zero_page_address
              [] mode = "ZPX" -> MemPtr(f.zero_page_address + x)
              [] mode = "ZPY" -> MemPtr(f.zero_page_address + y)
              [] mode = "ABSX" -> MemPtr(f.test_address + x)
              [] mode = "ABSY" -> MemPtr(f.test_address + y)
              [] mode = "INDX" -> f.indirect_address
              [] mode = "INDY" -> MemPtr(f.indirect_address + y)
    IN  IF mode \in {"IM", "ACC"} THEN [f |-> f, mem |-> m]
        ELSE [f |-> [f EXCEPT !.target_address = target_address],
              mem |-> Write(pointed, target_address, <<f.target_byte>>)]

MakeCode(f, m, opcode, mode) ==
    LET written == WriteTestData(f, m, mode)
    IN  [f |-> written.f, mem |-> written.mem,
         code |-> CASE mode = "IM" -> MakeCodeByte(opcode, f.target_byte)
                    [] mode \in {"ABS", "ABSX", "ABSY"} -> MakeCodeWord(opcode, f.test_address)
                    [] mode \in {"INDY", "INDX", "ZP", "ZPX", "ZPY"} ->
                          MakeCodeByte(opcode, f.zero_page_address)
                    [] mode = "ACC" -> MakeCodeBare(opcode)]

ExpectedProgramCounterKept(f, code) == f.expected_regs.program_counter

ExpectedProgramCounter(f, code) ==
    IF ~f.is_testing_jumps THEN MemPtr(f.expected_regs.program_counter + Len(code))
    ELSE f.expected_regs.program_counter

InitFixture ==
    /\ NoProgram
    /\ mem = <<>>
    /\ cycle = 0
    /\ reg = Registers(0, 0, 0, 0, 0, 0)
    /\ pending = NoInstruction
    /\ halt = "none"
    /\ elapsed = FALSE
    /\ host = [kind |-> "fixture", stage |-> "constructed"]

SetUp ==
    /\ host.kind = "fixture" /\ host.stage = "constructed"
    /\ \E random_reg_values \in BOOLEAN, drawn \in RandomRegisters, flags \in RandomFlags,
          zero_page_address \in RandomZeroPage, indirect_address \in RandomIndirect,
          target_byte \in RandomTarget, low \in RandomTestAddress :
          LET restarted == Reset(mem, reg)
              expected_regs ==
                  IF random_reg_values
                  THEN Registers(drawn[1], drawn[2], drawn[3], drawn[4],
                                 kBaseCodeAddress, flags)
                  ELSE Registers(16, 32, 48, 64, kBaseCodeAddress, flags)
          IN  /\ random_reg_values \/ drawn = CHOOSE d \in RandomRegisters : TRUE
              \* the do-while redraws until the pointer and the operand are apart
              /\ ~(\/ indirect_address + expected_regs.y = zero_page_address
                   \/ zero_page_address + expected_regs.x = indirect_address)
              /\ reg' = expected_regs
              /\ host' = [kind |-> "fixture", stage |-> "setup",
                          expected_regs |-> expected_regs,
                          zero_page_address |-> zero_page_address,
                          indirect_address |-> indirect_address,
                          target_byte |-> target_byte,
                          test_address |-> kBaseDataAddress + low,
                          target_address |-> kBaseDataAddress + low,
                          is_testing_jumps |-> FALSE]
    /\ UNCHANGED <<asmvars, mem, cycle, pending, halt, elapsed>>

\* BaseTest::Execute on the code of a test body
Execute(f, m, code, mnemonic, mode) ==
    LET placed == Write(m, reg.program_counter, code)
        executed == ExecuteNextInstruction(placed, reg)
        out == Issue(placed, cycle, executed.accesses)
    IN  /\ mem' = out.mem
        /\ cycle' = out.cycle
        /\ reg' = executed.reg
        /\ halt' = executed.halt
        /\ host' = [f EXCEPT !.stage = "executed",
                             !.expected_regs.program_counter = ExpectedProgramCounter(f, code)]
                   @@ [code |-> code, mnemonic |-> mnemonic, mode |-> mode,
                       executed |-> executed, regs_before |-> reg,
                       cycle_before |-> cycle]
        /\ UNCHANGED <<asmvars, pending, elapsed>>

TestAddressMode ==
    /\ host.kind = "fixture" /\ host.stage = "setup"
    /\ \E t \in ModeTests :
          LET made == MakeCode(host, mem, InstructionSet[t.mnemonic][t.mode], t.mode)
          IN  Execute(made.f, made.mem, made.code, t.mnemonic, t.mode)

TestImplied ==
    /\ host.kind = "fixture" /\ host.stage = "setup"
    /\ \E mnemonic \in ImpliedInstructions :
          Execute(host, mem, MakeCodeBare(InstructionSet[mnemonic].Implied),
                  mnemonic, "Implied")

TestJump ==
    /\ host.kind = "fixture" /\ host.stage = "setup"
    /\ LET f == [host EXCEPT !.is_testing_jumps = TRUE]
       IN  \/ \E mnemonic \in BranchInstructions, offset \in BranchOffsets :
                 Execute(f, mem, MakeCodeByte(InstructionSet[mnemonic].REL, offset),
                         mnemonic, "REL")
           \/ \E mode \in {"ABS", "ABS_IND"}, target \in JumpTargets :
                 Execute(f, mem, MakeCodeWord(InstructionSet.JMP[mode], target),
                         "JMP", mode)
           \/ Execute(f, mem, MakeCodeByte(InstructionSet.BRK.IM, 0), "BRK", "IM")

NextFixture == SetUp \/ TestAddressMode \/ TestImplied \/ TestJump

SpecFixture == InitFixture /\ [][NextFixture]_vars

\* Reset() called on a machine in any state
PriorRegisters ==
    {Registers(0, 0, 0, 0, 0, 0), Registers(18, 52, 86, 253, 4660, 4),
     Registers(255, 255, 255, 255, 65535, 255), Registers(1, 2, 3, 64, 6000, 8),
     Registers(1, 2, 3, 0, 512, 251)}

PriorVectors == {<<>>, <<0, 32>>, <<255, 255>>, <<52, 18>>}

InitReset ==
    /\ NoProgram
    /\ \E vector \in PriorVectors, other \in {<<>>, <<234>>} :
          mem = Write(Write(<<>>, ResetVector, vector), kBaseCodeAddress, other)
    /\ cycle \in InitialCycles \cup {1000}
    /\ reg \in PriorRegisters
    /\ pending = NoInstruction
    /\ halt = "none"
    /\ elapsed = FALSE
    /\ host = [kind |-> "reset", stage |-> "prior"]

ResetCpu ==
    /\ host.kind = "reset" /\ host.stage = "prior"
    /\ reg' = Reset(mem, reg)
    /\ host' = [kind |-> "reset", stage |-> "reset", regs_before |-> reg,
                cycle_before |-> cycle]
    /\ UNCHANGED <<asmvars, mem, cycle, pending, halt, elapsed>>

NextReset == ResetCpu

SpecReset == InitReset /\ [][NextReset]_vars

----------------------------------------------------------------------------
(* Properties of one executed instruction *)

Tested == host.kind = "fixture" /\ host.stage = "executed"

\* the penalty the documentation charges the instruction the fixture ran,
\* worked out from the operand and the registers it started with
DocumentedPenalty ==
    LET r == host.regs_before
        code == host.code
        low == IF Len(code) >= 2 THEN code[2] ELSE 0
        next == MemPtr(r.program_counter + 2)
        target == MemPtr(next + SignedOffset(low) + AddressSpace)
    IN  CASE host.mnemonic \in ReadInstructions /\ host.mode = "ABSX" ->
                (IF low + r.x >= ByteRange THEN 1 ELSE 0)
          [] host.mnemonic \in ReadInstructions /\ host.mode = "ABSY" ->
                (IF low + r.y >= ByteRange THEN 1 ELSE 0)
          [] host.mnemonic \in ReadInstructions /\ host.mode = "INDY" ->
                (IF Cell(mem, low) + r.y >= ByteRange THEN 1 ELSE 0)
          [] host.mnemonic \in BranchInstructions ->
                (IF IsSet(r.flags, ZeroFlag) # (host.mnemonic = "BEQ") THEN 0
                 ELSE IF Page(target) = Page(next) THEN 1 ELSE 3)
          [] OTHER -> 0

\* C14: an executed instruction advances the clock by its base cycle count
\* plus the documented penalty (page crossing on a read, branch taken) and by
\* no more, and it issues exactly that many bus accesses
C14_CycleCost ==
    Tested =>
        /\ cycle - host.cycle_before = BaseCycles(host.mnemonic, host.mode) + DocumentedPenalty
        /\ Len(host.executed.accesses) = cycle - host.cycle_before

C14_Witness ==
    /\ Tested
    /\ host.mnemonic = "LDA" /\ host.mode = "ABSX"
    /\ cycle - host.cycle_before = 5

BranchAcrossPageCharged ==
    /\ Tested
    /\ host.mnemonic = "BNE" /\ cycle - host.cycle_before = 5

StoreIndexedCharged ==
    /\ Tested
    /\ host.mnemonic = "STA" /\ host.mode = "INDY" /\ cycle - host.cycle_before = 6

\* registers and flag bits an instruction may write
WrittenRegisters(mnemonic, mode) ==
    CASE mnemonic \in {"LDA", "EOR"} -> {"a"}
      [] mnemonic \in {"LDX", "INX"} -> {"x"}
      [] mnemonic = "TAY" -> {"y"}
      [] mnemonic = "ASL" /\ mode = "ACC" -> {"a"}
      [] OTHER -> {}

WrittenFlags(mnemonic) ==
    CASE mnemonic \in {"LDA", "LDX", "EOR", "TAY", "INX"} -> {NegativeFlag, ZeroFlag}
      [] mnemonic \in {"CPX", "ASL"} -> {NegativeFlag, ZeroFlag, CarryFlag}
      [] OTHER -> {}

\* C15: one instruction that is not a jump moves the program counter forward
\* by its encoded length, to where the fixture expects it, and leaves every
\* register and flag it does not write as it was, whatever they held
C15_FrameOfOneInstruction ==
    (Tested /\ ~host.is_testing_jumps) =>
        /\ Len(host.code) = 1 + OperandSize(host.mode)
        /\ reg.program_counter = MemPtr(host.regs_before.program_counter + Len(host.code))
        /\ reg.program_counter = host.expected_regs.program_counter
        /\ \A field \in {"a", "x", "y", "stack_pointer"} \ WrittenRegisters(host.mnemonic, host.mode) :
              reg[field] = host.regs_before[field]
        /\ \A flag \in {CarryFlag, ZeroFlag, InterruptFlag, DecimalFlag, BreakFlag,
                        UnusedFlag, OverflowFlag, NegativeFlag} \ WrittenFlags(host.mnemonic) :
              IsSet(reg.flags, flag) = IsSet(host.regs_before.flags, flag)

C15_Witness ==
    /\ Tested /\ ~host.is_testing_jumps
    /\ host.mnemonic = "LDX" /\ host.mode = "ABSY"
    /\ host.regs_before.a = 255 /\ host.regs_before.flags = 255
    /\ reg.x # host.regs_before.x

\* C16: the effective address of a zero-page,X (zero-page,Y) operand is
\* (operand + X) & 0xFF: the cell the instruction is expected to read lies in
\* page zero, $80,X with X = 0xFF at $7F
C16_ZeroPageIndexedWraps ==
    (Tested /\ host.mode \in {"ZPX", "ZPY"}) =>
        LET index == IF host.mode = "ZPX" THEN host.regs_before.x ELSE host.regs_before.y
        IN  host.target_address = Reg8(host.zero_page_address + index)

\* the fixture puts the operand of $80,X with X = 0xFF at $017F
OperandPlacedOutsidePageZero ==
    /\ Tested /\ host.mode = "ZPX" /\ host.mnemonic = "LDA"
    /\ host.zero_page_address = 128 /\ host.regs_before.x = 255
    /\ host.target_address = 383

\* the instruction cycle of the documentation reads page zero
DataAccessInPageZero ==
    (Tested /\ host.mode \in {"ZPX", "ZPY"}) =>
        host.executed.accesses[Len(host.executed.accesses)].address < ByteRange

\* C18: after Reset(), from any prior state, the program counter is the word
\* at 0xFFFC/0xFFFD, the stack pointer 0xFD, I is set and D is clear, and the
\* clock has not been set back
C18_Reset ==
    (host.kind = "reset" /\ host.stage = "reset") =>
        /\ reg.program_counter = Cell(mem, 65532) + 256 * Cell(mem, 65533)
        /\ reg.stack_pointer = 253
        /\ IsSet(reg.flags, InterruptFlag)
        /\ ~IsSet(reg.flags, DecimalFlag)
        /\ cycle >= host.cycle_before
        /\ reg.a = host.regs_before.a /\ reg.x = host.regs_before.x
        /\ reg.y = host.regs_before.y

C18_Witness ==
    /\ host.kind = "reset" /\ host.stage = "reset"
    /\ cycle = 1000
    /\ IsSet(host.regs_before.flags, DecimalFlag)
    /\ ~IsSet(host.regs_before.flags, InterruptFlag)
    /\ host.regs_before.stack_pointer = 64
    /\ reg.program_counter = 8192

----------------------------------------------------------------------------
(* Cpu6502::ExecuteWithTimeout: the run loop, one bus access per step *)

MaxCycles == 100

StartAddress == 8192

\* programs loaded at StartAddress: JMP *; NOP, BRK #0; NOP, a byte that is
\* no opcode; ASL $3000,X, JMP to it
RunPrograms ==
    [spin |-> <<76, 0, 32>>,
     finish |-> <<234, 0, 0>>,
     illegal |-> <<234, 255>>,
     shift |-> <<30, 0, 48, 76, 0, 32>>]

StartRegisters == {Registers(0, 0, 0, 253, StartAddress, 32),
                   Registers(129, 255, 1, 1, StartAddress, 255)}

\* the timeout check of the loop: has the duration passed
DeadlineNeverReached(passed) == FALSE

DeadlineReached(passed) == passed

\* where the loop makes that check
Anywhere(p) == TRUE

AtInstructionBoundary(p) == p.accesses = <<>>

Running == host.kind \in {"run", "crc"} /\ halt = "none"

InitRun ==
    /\ NoProgram
    /\ \E name \in DOMAIN RunPrograms :
          /\ mem = Write(<<>>, StartAddress, RunPrograms[name])
          /\ cycle \in InitialCycles
          /\ host = [kind |-> "run", program |-> name, initial_cycle |-> cycle,
                     begun |-> 0, completed |-> 0, passed_inside |-> FALSE]
    /\ reg \in StartRegisters
    /\ pending = NoInstruction
    /\ halt = "none"
    /\ elapsed = FALSE

\* the check passed: the next instruction is fetched and decoded
BeginInstruction ==
    /\ Running
    /\ AtInstructionBoundary(pending)
    /\ ~DeadlineReached(elapsed)
    /\ cycle < MaxCycles
    /\ pending' = ExecuteNextInstruction(mem, reg)
    /\ host' = [host EXCEPT !.begun = @ + 1]
    /\ UNCHANGED <<asmvars, mem, cycle, reg, halt, elapsed>>

\* the instruction in flight issues its next access; with the last one its
\* registers are written and a BRK or an illegal opcode stops the loop
BusAccess ==
    /\ Running
    /\ pending.accesses # <<>>
    /\ LET out == Issue(mem, cycle, <<Head(pending.accesses)>>)
           rest == Tail(pending.accesses)
       IN  /\ mem' = out.mem
           /\ cycle' = out.cycle
           /\ IF rest = <<>>
              THEN /\ reg' = pending.reg
                   /\ halt' = pending.halt
                   /\ pending' = NoInstruction
                   /\ host' = [host EXCEPT !.completed = @ + 1]
              ELSE /\ pending' = [pending EXCEPT !.accesses = rest]
                   /\ UNCHANGED <<reg, halt, host>>
    /\ UNCHANGED <<asmvars, elapsed>>

\* wall time: the duration runs out, at any moment after the loop started
DeadlinePasses ==
    /\ Running /\ host.kind = "run"
    /\ host.begun > 0
    /\ ~elapsed
    /\ elapsed' = TRUE
    /\ host' = [host EXCEPT !.passed_inside = ~AtInstructionBoundary(pending)]
    /\ UNCHANGED <<asmvars, mem, cycle, reg, pending, halt>>

TimeoutHalt ==
    /\ Running /\ host.kind = "run"
    /\ AtInstructionBoundary(pending)
    /\ DeadlineReached(elapsed)
    /\ halt' = "Timeout"
    /\ UNCHANGED <<asmvars, mem, cycle, reg, pending, elapsed, host>>

NextRun == BeginInstruction \/ BusAccess \/ DeadlinePasses \/ TimeoutHalt

SpecRun == InitRun /\ [][NextRun]_vars

\* the loop keeps running and wall time keeps passing
SpecRunFair ==
    /\ SpecRun
    /\ WF_vars(BeginInstruction) /\ WF_vars(BusAccess)
    /\ WF_vars(DeadlinePasses) /\ WF_vars(TimeoutHalt)

\* C12: ExecuteWithTimeout always stops, and only because a BRK was hit, the
\* duration elapsed or an illegal opcode was met; it never simply returns, so
\* the endless JMP * stops by Timeout with the clock advanced
C12_RunLoopStops ==
    /\ [](host.kind = "run" => halt \in {"none", "Brk", "Timeout", "IllegalOpcode"})
    /\ [](host.kind = "run" /\ host.program = "spin" /\ halt # "none" =>
              halt = "Timeout" /\ cycle > host.initial_cycle)
    /\ [](host.kind = "run" /\ halt = "Brk" => host.program = "finish")
    /\ [](host.kind = "run" /\ halt = "IllegalOpcode" => host.program = "illegal")
    /\ <>(halt # "none")

C12_Witness ==
    /\ host.kind = "run" /\ host.program = "spin"
    /\ halt = "Timeout" /\ host.completed >= 3

HaltedByBreak == host.kind = "run" /\ halt = "Brk" /\ ~elapsed

HaltedByIllegalOpcode == host.kind = "run" /\ halt = "IllegalOpcode" /\ ~elapsed

\* C17: the timeout is looked at between instructions only: when the loop
\* stops by Timeout no instruction is in flight, every instruction whose
\* opcode fetch began has issued all its accesses and written its registers
C17_TimeoutBetweenInstructions ==
    (host.kind = "run" /\ halt = "Timeout") =>
        /\ pending.accesses = <<>>
        /\ host.begun = host.completed

C17_Witness ==
    /\ host.kind = "run" /\ halt = "Timeout"
    /\ host.passed_inside
    /\ host.program = "shift" /\ host.completed >= 1

----------------------------------------------------------------------------
(* The CRC-8 program of the CT test: assembled, loaded, run *)

MaxDataSize == 2

TestDataBytes == {0, 90, 255}

crc8_table ==
    <<234, 212, 150, 168, 18, 44, 110, 80, 127, 65, 3, 61, 135, 185, 251, 197,
      165, 155, 217, 231, 93, 99, 33, 31, 48, 14, 76, 114, 200, 246, 180, 138,
      116, 74, 8, 54, 140, 178, 240, 206, 225, 223, 157, 163, 25, 39, 101, 91,
      59, 5, 71, 121, 195, 253, 191, 129, 174, 144, 210, 236, 86, 104, 42, 20,
      179, 141, 207, 241, 75, 117, 55, 9, 38, 24, 90, 100, 222, 224, 162, 156,
      252, 194, 128, 190, 4, 58, 120, 70, 105, 87, 21, 43, 145, 175, 237, 211,
      45, 19, 81, 111, 213, 235, 169, 151, 184, 134, 196, 250, 64, 126, 60, 2,
      98, 92, 30, 32, 154, 164, 230, 216, 247, 201, 139, 181, 15, 49, 115, 77,
      88, 102, 36, 26, 160, 158, 220, 226, 205, 243, 177, 143, 53, 11, 73, 119,
      23, 41, 107, 85, 239, 209, 147, 173, 130, 188, 254, 192, 122, 68, 6, 56,
      198, 248, 186, 132, 62, 0, 66, 124, 83, 109, 47, 17, 171, 149, 215, 233,
      137, 183, 245, 203, 113, 79, 13, 51, 28, 34, 96, 94, 228, 218, 152, 166,
      1, 63, 125, 67, 249, 199, 133, 187, 148, 170, 232, 214, 108, 82, 16, 46,
      78, 112, 50, 12, 182, 136, 202, 244, 219, 229, 167, 153, 35, 29, 95, 97,
      159, 161, 227, 221, 103, 89, 27, 37, 10, 52, 118, 72, 242, 204, 142, 176,
      208, 238, 172, 146, 40, 22, 84, 106, 69, 123, 57, 7, 189, 131, 193, 255>>

\* the reference the test compares with
RECURSIVE crc8From(_, _, _)
crc8From(crc, container, i) ==
    IF i > Len(container) THEN crc
    ELSE crc8From(crc8_table[Xor(crc, container[i]) + 1], container, i + 1)

crc8(container) == crc8From(0, container, 1)

Org(w) == [kind |-> "org", value |-> w]

Label(name) == [kind |-> "label", name |-> name]

Bytes(values) == [kind |-> "byte", values |-> values]

Instruction(mnemonic, form, kind, label, value) ==
    [kind |-> "instruction", mnemonic |-> mnemonic,
     text |-> [form |-> form, kind |-> kind, label |-> label, value |-> value]]

\* the lookup table as .byte lines of sixteen values each, which the
\* assembler lays out one after the other from the cursor
TableRows == [row \in 1 .. 16 |-> Bytes(SubSeq(crc8_table, 16 * row - 15, 16 * row))]

\* the source text of the test, for a block of test data
CrcSource(test_data) ==
    <<Org(8192),
      Label("START"),
      Instruction("NOP", "none", "none", "", 0),
      Label("CRC8_INIT"),
      Instruction("LDX", "imm", "byte", "", 0),
      Instruction("LDA", "imm", "byte", "", 0),
      Label("CRC8_LOOP"),
      Instruction("CPX", "plain", "label", "TEST_DATA_SIZE", 0),
      Instruction("BEQ", "plain", "label", "CRC8_FINISH", 0),
      Instruction("EOR", "x", "label", "TEST_DATA", 0),
      Instruction("TAY", "none", "none", "", 0),
      Instruction("LDA", "y", "label", "CRC8_TABLE", 0),
      Instruction("INX", "none", "none", "", 0),
      Instruction("BNE", "plain", "label", "CRC8_LOOP", 0),
      Label("CRC8_FINISH"),
      Instruction("NOP", "none", "none", "", 0),
      Instruction("STA", "plain", "label", "RESULT_CRC8_VALUE", 0),
      Instruction("JMP", "plain", "label", "HALT", 0),
      Label("HALT"),
      Instruction("BRK", "imm", "byte", "", 0),
      Org(12288),
      Label("CRC8_TABLE")>>
    \o TableRows
    \o <<Org(16384),
          Label("TEST_DATA_SIZE"),
          Bytes(<<Len(test_data)>>),
          Label("RESULT_CRC8_VALUE"),
          Bytes(<<0>>),
          Org(16640),
          Label("TEST_DATA"),
          Bytes(test_data)>>

\* a source line handed to its handler
ProcessLine(ctx, ln) ==
    CASE ln.kind = "org" -> ParseOriginCommand(ctx, ln.value)
      [] ln.kind = "byte" -> ParseByteCommand(ctx, ln.values)
      [] ln.kind = "word" -> ParseWordCommand(ctx, ln.values)
      [] ln.kind = "label" -> AddLabel(ctx, ln.name)
      [] ln.kind = "instruction" -> ParseInstruction(ctx, ln.mnemonic, ln.text)

RECURSIVE CompileFrom(_, _, _)
CompileFrom(ctx, lines, i) ==
    IF i > Len(lines) \/ ctx.error # NoError THEN ctx
    ELSE CompileFrom(ProcessLine(ctx, lines[i]), lines, i + 1)

\* CompileString: every line in turn, up to the first error, then finalization
CompileString(lines) ==
    LET compiled ==
            CompileFrom([sparse_map |-> <<>>, current_position |-> 0, labels |-> <<>>,
                         relocations |-> {}, error |-> NoError], lines, 1)
    IN  IF compiled.error # NoError THEN compiled ELSE Finalize(compiled)

TestData == UNION {[1 .. n -> TestDataBytes] : n \in 1 .. MaxDataSize}

InitCrc ==
    \E test_data \in TestData, registers \in StartRegisters :
        LET program == CompileString(CrcSource(test_data))
        IN  /\ sparse_map = program.sparse_map
            /\ current_position = program.current_position
            /\ labels = program.labels
            /\ relocations = program.relocations
            /\ error = program.error
            /\ finished = (program.error = NoError)
            /\ line = [kind |-> "end"]
            /\ before = program
            /\ nlines = Len(CrcSource(test_data))
            /\ ninstructions = 13
            \* memory.WriteSparse, program_counter = START
            /\ mem = program.sparse_map
            /\ cycle = 0
            /\ reg = [registers EXCEPT
                         !.program_counter = program.labels["START"].offset[1]]
            /\ pending = NoInstruction
            /\ halt = "none"
            /\ elapsed = FALSE
            /\ host = [kind |-> "crc", program |-> "crc8", initial_cycle |-> 0,
                       begun |-> 0, completed |-> 0, passed_inside |-> FALSE,
                       test_data |-> test_data]

NextCrc == BeginInstruction \/ BusAccess

SpecCrc == InitCrc /\ [][NextCrc]_vars

\* the one-second deadline of the test is far away: the loop keeps running
SpecCrcFair == SpecCrc /\ WF_vars(BeginInstruction) /\ WF_vars(BusAccess)

ResultAddress == labels["RESULT_CRC8_VALUE"].offset[1]

\* C13: the assembled CRC-8 program, started at START, stops through BRK and
\* by nothing else, and then the byte at RESULT_CRC8_VALUE is the reference
\* crc8 of the test data, for every block of data of the declared size
C13_Crc8Program ==
    /\ [](host.kind = "crc" =>
             /\ error = NoError
             /\ halt \in {"none", "Brk"}
             /\ halt = "Brk" =>
                   Cell(mem, ResultAddress) = crc8(host.test_data))
    /\ <>(halt = "Brk")

C13_Witness ==
    /\ host.kind = "crc" /\ halt = "Brk"
    /\ Len(host.test_data) = 2
    /\ host.test_data[1] # host.test_data[2]
    /\ Cell(mem, ResultAddress) # 0
    /\ ResultAddress = 16385 /\ labels["CRC8_TABLE"].offset = <<12288>>

----------------------------------------------------------------------------
(* Properties of instruction lines: operand-less instructions, relocation modes *)

\* the address modes an operand-less instruction line is left with
NullaryModes(mnemonic, text) ==
    ParseInstructionArgument(text).possible_address_modes
        \cap DOMAIN InstructionSet[mnemonic]

\* C19: an instruction without operand is encoded with the Implied mode only:
\* unless the modes its argument may denote and the modes of its mnemonic meet
\* in exactly {Implied} the line fails and nothing is emitted, also for a
\* mnemonic that has the Accumulator mode but not Implied
C19_NullaryOnlyImplied ==
    (LineIs("instruction") /\ line.text.form = "none") =>
        IF NullaryModes(line.mnemonic, line.text) = {"Implied"}
        THEN /\ error \in {NoError, "collision"}
             /\ error = NoError =>
                    /\ CellIs(Cursor0, InstructionSet[line.mnemonic].Implied)
                    /\ current_position = Cursor0 + 1
                    /\ DOMAIN sparse_map = DOMAIN before.sparse_map \cup {Cursor0}
        ELSE /\ error = "select_variant"
             /\ sparse_map = before.sparse_map
             /\ current_position = Cursor0

C19_Witness ==
    /\ LineIs("instruction") /\ line.text.form = "none"
    /\ line.mnemonic = "ASL"
    /\ NullaryModes(line.mnemonic, line.text) = {"ACC"}
    /\ error = "select_variant"
    /\ before.sparse_map # <<>>

ImpliedEncoded ==
    /\ LineIs("instruction") /\ line.text.form = "none"
    /\ line.mnemonic = "NOP" /\ error = NoError /\ Cursor0 > 0

\* ProcessInstructionArgument(opcode, label) as a function of the opcode it is
\* given: the opcode byte of any variant with an operand is emitted at the
\* cursor and the label operand processed for that variant
OperandVariants ==
    {[mnemonic |-> "BEQ", mode |-> "REL"], [mnemonic |-> "JMP", mode |-> "ABS"],
     [mnemonic |-> "LDA", mode |-> "ABSX"], [mnemonic |-> "LDA", mode |-> "ZP"],
     [mnemonic |-> "STX", mode |-> "ZPY"], [mnemonic |-> "LDA", mode |-> "INDY"]}

OperandSites == {0, 16, 300}

OperandTargets == {<<>>, <<32>>, <<400>>}

InitOperand ==
    \E site \in OperandSites, target \in OperandTargets :
        LET lbls == IF target = <<>> THEN <<>>
                    ELSE "L1" :> [offset |-> target, imported |-> FALSE,
                                  label_references |-> <<>>]
        IN  /\ MachineOff
            /\ sparse_map = <<>>
            /\ current_position = site
            /\ labels = lbls
            /\ relocations = {}
            /\ error = NoError
            /\ finished = FALSE
            /\ line = [kind |-> "start"]
            /\ before = [sparse_map |-> <<>>, current_position |-> site,
                         labels |-> lbls, relocations |-> {}, error |-> NoError]
            /\ nlines = 0
            /\ ninstructions = 0

OperandLine ==
    /\ Reading
    /\ \E v \in OperandVariants, label \in LabelNames :
          LET advanced == [Ctx EXCEPT !.current_position = Address_t(@ + 1)]
              put == PutByte(advanced, current_position,
                             InstructionSet[v.mnemonic][v.mode], FALSE)
          IN  /\ put.error = NoError
              /\ Becomes(ProcessInstructionArgumentLabel(put, v.mode, label),
                         [kind |-> "operand", mnemonic |-> v.mnemonic, mode |-> v.mode,
                          label |-> label])

NextOperand == OperandLine

SpecOperand == InitOperand /\ [][NextOperand]_vars

SingleByteZeroPageModes == {"ZP", "ZPX", "ZPY", "INDX", "INDY"}

RecordedAt(position) == {r \in relocations : r.position = position}

RelocationModeAsRecorded ==
    (LineIs("operand") /\ error = NoError) =>
        /\ RecordedAt(Cursor0 + 1) # {}
        /\ \A r \in RecordedAt(Cursor0 + 1) :
              r.mode = IF line.mode = "REL" THEN "Relative" ELSE "Absolute"
        /\ line.mode # "REL" => current_position = Cursor0 + 3

ZeroPageOperandRecordedAbsolute ==
    /\ LineIs("operand") /\ error = NoError
    /\ line.mode = "ZP"
    /\ \E r \in RecordedAt(Cursor0 + 1) : r.mode = "Absolute"

\* through ParseInstruction a label operand is never given a zero-page
\* variant, and no relocation of mode ZeroPage is ever recorded
NoZeroPageRelocation == \A r \in relocations : r.mode # "ZeroPage"

====
